---- MODULE Spec2Model ----
(***************************************************************************)
(* Model of src/utils/post.ts: the helpers that retrieve, filter and sort  *)
(* the entries of a content collection.                                    *)
(*                                                                         *)
(* Strings that the code inspects character by character (slugs) are       *)
(* sequences of one-character strings.  JavaScript numbers are records     *)
(* [kind, val] so that Infinity, -Infinity and NaN are values of their own *)
(* and subtraction behaves as it does in the language.                     *)
(***************************************************************************)
EXTENDS Integers, Sequences, FiniteSets

VARIABLES
    source,      \* the entries the content source holds, in its order
    PROD,        \* import.meta.env.PROD
    retrieval,   \* "pending" | "fulfilled" | "rejected": the promise of getFilteredPosts
    failure,     \* <<>>, or <<the error the content source failed with>>
    returned,    \* what the promise of getFilteredPosts settled to (<<>> while pending)
    posts,       \* the array the caller holds (sorted in place by the sorts)
    op,          \* the operation called last
    input,       \* the array as it was when the last operation was called
    categories,  \* what getUniqueCategories returned, when it was called last (else <<>>)
    slug,        \* the argument of extractSequenceNumber
    seq          \* <<>> or <<the result of extractSequenceNumber(slug)>>

vars == <<source, PROD, retrieval, failure, returned, posts, op, input,
          categories, slug, seq>>

-----------------------------------------------------------------------------
(* Bounds *)

\* The longest collection the content source holds.
MaxPosts == 3
\* The longest slug extractSequenceNumber is applied to exhaustively.
MaxLen == 4

-----------------------------------------------------------------------------
(* JavaScript numbers *)

Num(n) == [kind |-> "finite", val |-> n]
Infinity == [kind |-> "infinite", val |-> 1]
NaN == [kind |-> "NaN", val |-> 0]

\* x - y
Minus(x, y) ==
    IF x.kind = "NaN" \/ y.kind = "NaN" THEN NaN
    ELSE IF x.kind = "infinite" /\ y.kind = "infinite"
         THEN (IF x.val = y.val THEN NaN ELSE x)
    ELSE IF x.kind = "infinite" THEN x
    ELSE IF y.kind = "infinite" THEN [kind |-> "infinite", val |-> -(y.val)]
    ELSE Num(x.val - y.val)

\* x !== y
StrictNotEqual(x, y) ==
    IF x.kind = "NaN" \/ y.kind = "NaN" THEN TRUE ELSE x # y

\* The sign of a number: -1, 0, 1, and 2 for NaN (no sign).
Sign(x) ==
    IF x.kind = "NaN" THEN 2
    ELSE IF x.val < 0 THEN -1
    ELSE IF x.val > 0 THEN 1
    ELSE 0

-----------------------------------------------------------------------------
(* extractSequenceNumber *)

Digits == {"0", "1", "2", "3", "4", "5", "6", "7", "8", "9"}

DigitValue(c) ==
    CASE c = "0" -> 0 [] c = "1" -> 1 [] c = "2" -> 2 [] c = "3" -> 3
      [] c = "4" -> 4 [] c = "5" -> 5 [] c = "6" -> 6 [] c = "7" -> 7
      [] c = "8" -> 8 [] c = "9" -> 9

\* s.split('/'): the segments between the separators, never an empty array.
RECURSIVE SplitFrom(_, _, _)
SplitFrom(s, i, cur) ==
    IF i > Len(s) THEN <<cur>>
    ELSE IF s[i] = "/" THEN <<cur>> \o SplitFrom(s, i + 1, <<>>)
    ELSE SplitFrom(s, i + 1, Append(cur, s[i]))

Split(s) == SplitFrom(s, 1, <<>>)

\* filename.match(/^(\d+)/): <<>> for null, else <<the captured digit run>>.
RECURSIVE DigitRun(_, _)
DigitRun(s, i) ==
    IF i <= Len(s) /\ s[i] \in Digits THEN <<s[i]>> \o DigitRun(s, i + 1)
    ELSE <<>>

\* Mutant: the pattern without its anchor, /(\d+)/.
RECURSIVE FirstDigitRun(_, _)
FirstDigitRun(s, i) ==
    IF i > Len(s) THEN <<>>
    ELSE IF s[i] \in Digits THEN DigitRun(s, i)
    ELSE FirstDigitRun(s, i + 1)

MatchFirstDigits(filename) ==
    IF FirstDigitRun(filename, 1) = <<>> THEN <<>> ELSE <<FirstDigitRun(filename, 1)>>

MatchLeadingDigits(filename) ==
    IF DigitRun(filename, 1) = <<>> THEN <<>> ELSE <<DigitRun(filename, 1)>>

\* parseInt(digits, 10) of a non-empty run of decimal digits.
RECURSIVE ParseIntFrom(_, _, _)
ParseIntFrom(d, i, acc) ==
    IF i > Len(d) THEN acc
    ELSE ParseIntFrom(d, i + 1, acc * 10 + DigitValue(d[i]))

ParseInt10(d) == Num(ParseIntFrom(d, 1, 0))

extractSequenceNumber(s) ==
    LET parts == Split(s)
        filename == parts[Len(parts)]
        match == MatchLeadingDigits(filename)
    IN  IF match # <<>> THEN ParseInt10(match[1]) ELSE Infinity

-----------------------------------------------------------------------------
(* Collection entries *)

\* An entry is [slug, data]; data holds pubDate and, when the front matter
\* gives them, category and draft.  The fallback category is the literal
\* of lines 62, 63 and 107 (written here in ASCII).
Fallback == "uncategorized"

Range(s) == {s[i] : i \in 1..Len(s)}

\* ('category' in data ? data.category : undefined) || fallback
categoryOf(data) ==
    LET category == IF "category" \in DOMAIN data THEN <<data.category>> ELSE <<>>
    IN  IF category = <<>> \/ category[1] = "" THEN Fallback ELSE category[1]

\* The zh-CN collation of the category names of the model: the empty string
\* first, then the Han script (which the zh collation orders in front of the
\* other scripts), then Latin letters, a letter with a diacritic after the
\* plain letter; the precomposed and the decomposed form of a letter are
\* canonically equivalent and collate as equal.
CollationKey(s) ==
    CASE s = "" -> 0
      [] s = Fallback -> 1
      [] s = "A" -> 2
      [] s = "A-ring (U+00C5)" -> 3
      [] s = "A-ring (U+0041 U+030A)" -> 3
      [] s = "B" -> 4

\* a.localeCompare(b, 'zh-CN')
localeCompare(a, b) ==
    IF CollationKey(a) < CollationKey(b) THEN Num(-1)
    ELSE IF CollationKey(a) > CollationKey(b) THEN Num(1)
    ELSE Num(0)

\* date.valueOf()
valueOf(date) == Num(date)

-----------------------------------------------------------------------------
(* Array.prototype.sort *)

\* The comparator's result as the sort reads it: NaN counts as 0.
SortCompare(v) == IF v.kind = "NaN" THEN 0 ELSE Sign(v)

\* cmp is the comparator as a function on pairs of elements.  The sort is
\* stable: an element moves in front of those that compare greater only.
RECURSIVE Insert(_, _, _)
Insert(sorted, x, cmp) ==
    IF sorted = <<>> THEN <<x>>
    ELSE IF SortCompare(cmp[<<sorted[Len(sorted)], x>>]) > 0
         THEN Append(Insert(SubSeq(sorted, 1, Len(sorted) - 1), x, cmp),
                     sorted[Len(sorted)])
    ELSE Append(sorted, x)

RECURSIVE SortFrom(_, _, _, _)
SortFrom(arr, i, sorted, cmp) ==
    IF i > Len(arr) THEN sorted
    ELSE SortFrom(arr, i + 1, Insert(sorted, arr[i], cmp), cmp)

ArraySort(arr, cmp) == SortFrom(arr, 1, <<>>, cmp)

-----------------------------------------------------------------------------
(* getSortedPosts *)

\* Mutant: the operands exchanged (oldest first).
compareByDateAscending(a, b) ==
    Minus(valueOf(a.data.pubDate), valueOf(b.data.pubDate))

\* Mutant: a comparator that never answers 0.
compareByDateNeverZero(a, b) ==
    IF b.data.pubDate >= a.data.pubDate THEN Num(1) ELSE Num(-1)

\* (a, b) => b.data.pubDate.valueOf() - a.data.pubDate.valueOf()
compareByDate(a, b) == Minus(valueOf(b.data.pubDate), valueOf(a.data.pubDate))

getSortedPosts(arr) ==
    ArraySort(arr, [p \in Range(arr) \X Range(arr) |-> compareByDate(p[1], p[2])])

-----------------------------------------------------------------------------
(* getSortedPostsByCategory *)

\* Mutant: the sequence number left out of the comparison.
compareByCategoryThenDate(a, b) ==
    LET categoryCompare == localeCompare(categoryOf(a.data), categoryOf(b.data))
    IN  IF StrictNotEqual(categoryCompare, Num(0)) THEN categoryCompare
        ELSE Minus(valueOf(b.data.pubDate), valueOf(a.data.pubDate))

\* Mutant: the difference of the sequence numbers returned without the
\* test that they differ.
compareByCategoryUnguarded(a, b) ==
    LET categoryCompare == localeCompare(categoryOf(a.data), categoryOf(b.data))
        seqA == extractSequenceNumber(a.slug)
        seqB == extractSequenceNumber(b.slug)
    IN  IF StrictNotEqual(categoryCompare, Num(0)) THEN categoryCompare
        ELSE IF seqA.kind = "infinite" \/ seqB.kind = "infinite" \/ seqA # seqB
             THEN Minus(seqA, seqB)
        ELSE Minus(valueOf(b.data.pubDate), valueOf(a.data.pubDate))

compareByCategory(a, b) ==
    LET categoryA == categoryOf(a.data)
        categoryB == categoryOf(b.data)
        categoryCompare == localeCompare(categoryA, categoryB)
        seqA == extractSequenceNumber(a.slug)
        seqB == extractSequenceNumber(b.slug)
    IN  IF StrictNotEqual(categoryCompare, Num(0)) THEN categoryCompare
        ELSE IF StrictNotEqual(seqA, seqB) THEN Minus(seqA, seqB)
        ELSE Minus(valueOf(b.data.pubDate), valueOf(a.data.pubDate))

\* Mutant: the category in use written back into each record.
getSortedPostsByCategoryStoringCategory(arr) ==
    LET stored == [i \in 1..Len(arr) |->
                     [slug |-> arr[i].slug,
                      data |-> [k \in DOMAIN arr[i].data \cup {"category"} |->
                                  IF k = "category" THEN categoryOf(arr[i].data)
                                  ELSE arr[i].data[k]]]]
    IN  ArraySort(stored,
                  [p \in Range(stored) \X Range(stored) |-> compareByCategory(p[1], p[2])])

getSortedPostsByCategory(arr) ==
    ArraySort(arr, [p \in Range(arr) \X Range(arr) |-> compareByCategory(p[1], p[2])])

-----------------------------------------------------------------------------
(* getUniqueCategories *)

\* Mutant: an array in place of the Set.
SetAddAlways(set, v) == Append(set, v)

\* categoriesSet.add(category): a Set keeps its values in insertion order.
SetAdd(set, v) == IF v \in Range(set) THEN set ELSE Append(set, v)

RECURSIVE CollectCategories(_, _, _)
CollectCategories(arr, i, categoriesSet) ==
    IF i > Len(arr) THEN categoriesSet
    ELSE CollectCategories(arr, i + 1, SetAdd(categoriesSet, categoryOf(arr[i].data)))

getUniqueCategories(arr) ==
    LET categoriesSet == CollectCategories(arr, 1, <<>>)
    IN  ArraySort(categoriesSet,
                  [p \in Range(categoriesSet) \X Range(categoriesSet) |->
                      localeCompare(p[1], p[2])])

-----------------------------------------------------------------------------
(* getFilteredPosts *)

\* Mutant: the negation dropped.
draftFilterKeepingDrafts(data, prod) ==
    IF prod THEN ("draft" \in DOMAIN data /\ data.draft) ELSE TRUE

\* Mutant: the mode ignored.
draftFilterInEveryMode(data, prod) ==
    ~("draft" \in DOMAIN data /\ data.draft)

\* ({ data }) => import.meta.env.PROD ? !data.draft : true
draftFilter(data, prod) ==
    IF prod THEN ~("draft" \in DOMAIN data /\ data.draft) ELSE TRUE

\* The content source: it fails with the error of `fails`, or yields its
\* entries, in its order, that the predicate `keep` includes.
RECURSIVE Retrieve(_, _, _)
Retrieve(entries, i, keep) ==
    IF i > Len(entries) THEN <<>>
    ELSE (IF keep[entries[i]] THEN <<entries[i]>> ELSE <<>>)
         \o Retrieve(entries, i + 1, keep)

getCollection(entries, keep, fails) ==
    IF fails # <<>> THEN [status |-> "rejected", reason |-> fails[1]]
    ELSE [status |-> "fulfilled", value |-> Retrieve(entries, 1, keep)]

\* Mutant: a failed retrieval caught and answered with an empty array.
getFilteredPostsCatching(entries, prod, fails) ==
    IF fails # <<>> THEN [status |-> "fulfilled", value |-> <<>>]
    ELSE getCollection(entries,
                       [e \in Range(entries) |-> draftFilter(e.data, prod)],
                       fails)

\* return await getCollection(type, filter): the settlement is handed on.
getFilteredPosts(entries, prod, fails) ==
    getCollection(entries,
                  [e \in Range(entries) |-> draftFilter(e.data, prod)],
                  fails)

-----------------------------------------------------------------------------
(* The inputs of the model *)

\* The entries a content collection is drawn from.  Slugs are unique, as the
\* content source keeps them.  Dates are timestamps.
Entries ==
    { [slug |-> <<"a", "/", "2", "-", "x">>,
       data |-> [pubDate |-> 100, category |-> "A"]],
      [slug |-> <<"a", "/", "1", "-", "y">>,
       data |-> [pubDate |-> 200, category |-> "A", draft |-> FALSE]],
      [slug |-> <<"b", "/", "z">>,
       data |-> [pubDate |-> 50, category |-> "B", draft |-> TRUE]],
      [slug |-> <<"a", "/", "0", "2", "-", "w">>,
       data |-> [pubDate |-> 100, category |-> "A", draft |-> TRUE]],
      [slug |-> <<"a", "/", "2", "-", "v">>,
       data |-> [pubDate |-> 200, category |-> "A", draft |-> FALSE]],
      [slug |-> <<"b", "/", "w">>,
       data |-> [pubDate |-> 50, category |-> "B"]],
      [slug |-> <<"1", "/", "t">>,
       data |-> [pubDate |-> 200, category |-> "B", draft |-> FALSE]],
      [slug |-> <<"c", "/", "1", "-", "u">>,
       data |-> [pubDate |-> 100, draft |-> FALSE]],
      [slug |-> <<"c", "/", "u">>,
       data |-> [pubDate |-> 200, category |-> "", draft |-> FALSE]],
      [slug |-> <<"1", "0">>,
       data |-> [pubDate |-> 50, category |-> Fallback]],
      [slug |-> <<"d", "/", "1", "0", "-", "s">>,
       data |-> [pubDate |-> 100, category |-> "A-ring (U+00C5)"]],
      [slug |-> <<"d", "/", "s", "3">>,
       data |-> [pubDate |-> 100, category |-> "A-ring (U+0041 U+030A)",
                 draft |-> TRUE]] }

\* The collections the content source may hold: up to MaxPosts entries, no
\* entry twice, in any order.
Collections ==
    UNION { { c \in [1..n -> Entries] :
                \A i, j \in 1..n : i # j => c[i] # c[j] } : n \in 0..MaxPosts }

\* The errors a retrieval may fail with.
SourceErrors == {"UnknownCollection", "ContentLayerError"}

\* The characters of the slugs extractSequenceNumber is applied to.
Chars == {"/", "0", "1", "2", "a", "-"}

Strings == UNION { [1..n -> Chars] : n \in 0..MaxLen }

\* The slugs of the documentation and of the entries.
ExampleSlugs ==
    { <<"l", "a", "n", "g", "c", "h", "a", "i", "n", "/", "1", "-",
        "b", "a", "s", "i", "c", "s">>,
      <<"l", "a", "n", "g", "c", "h", "a", "i", "n", "/",
        "b", "a", "s", "i", "c", "s">>,
      <<"1", "0">> } \cup { e.slug : e \in Entries }

-----------------------------------------------------------------------------
(* The pipeline: retrieval, then sorts and category listings in any order *)

Init ==
    /\ source \in Collections
    /\ PROD \in BOOLEAN
    /\ retrieval = "pending"
    /\ failure = <<>>
    /\ returned = <<>>
    /\ posts = <<>>
    /\ op = "none"
    /\ input = <<>>
    /\ categories = <<>>
    /\ slug = <<>>
    /\ seq = <<>>

\* The caller awaits getFilteredPosts; the content source answers or fails.
GetFilteredPosts ==
    /\ retrieval = "pending"
    /\ \E fails \in {<<>>} \cup {<<e>> : e \in SourceErrors} :
         LET r == getFilteredPosts(source, PROD, fails)
         IN  /\ failure' = fails
             /\ returned' = r
             /\ retrieval' = r.status
             /\ posts' = IF r.status = "fulfilled" THEN r.value ELSE posts
    /\ op' = "getFilteredPosts"
    /\ input' = source
    /\ UNCHANGED <<source, PROD, categories, slug, seq>>

\* posts.sort(...) sorts the caller's array in place and returns it.
GetSortedPosts ==
    /\ retrieval = "fulfilled"
    /\ input' = posts
    /\ posts' = getSortedPosts(posts)
    /\ op' = "getSortedPosts"
    /\ categories' = <<>>
    /\ UNCHANGED <<source, PROD, retrieval, failure, returned, slug, seq>>

GetSortedPostsByCategory ==
    /\ retrieval = "fulfilled"
    /\ input' = posts
    /\ posts' = getSortedPostsByCategory(posts)
    /\ op' = "getSortedPostsByCategory"
    /\ categories' = <<>>
    /\ UNCHANGED <<source, PROD, retrieval, failure, returned, slug, seq>>

GetUniqueCategories ==
    /\ retrieval = "fulfilled"
    /\ input' = posts
    /\ categories' = getUniqueCategories(posts)
    /\ op' = "getUniqueCategories"
    /\ UNCHANGED <<source, PROD, retrieval, failure, returned, posts, slug, seq>>

Next ==
    \/ GetFilteredPosts
    \/ GetSortedPosts
    \/ GetSortedPostsByCategory
    \/ GetUniqueCategories

Spec == Init /\ [][Next]_vars

-----------------------------------------------------------------------------
(* extractSequenceNumber on its own *)

InitSeq ==
    /\ slug \in Strings \cup ExampleSlugs
    /\ seq = <<>>
    /\ op = "none"
    /\ source = <<>>
    /\ PROD = FALSE
    /\ retrieval = "pending"
    /\ failure = <<>>
    /\ returned = <<>>
    /\ posts = <<>>
    /\ input = <<>>
    /\ categories = <<>>

ExtractSequenceNumber ==
    /\ op = "none"
    /\ seq' = <<extractSequenceNumber(slug)>>
    /\ op' = "extractSequenceNumber"
    /\ UNCHANGED <<source, PROD, retrieval, failure, returned, posts, input,
                   categories, slug>>

NextSeq == ExtractSequenceNumber

SpecSeq == InitSeq /\ [][NextSeq]_vars

-----------------------------------------------------------------------------
(* What the claims speak of *)

\* The entries of the documented example.
ExampleX == [slug |-> <<"a", "/", "2", "-", "x">>,
             data |-> [pubDate |-> 100, category |-> "A"]]
ExampleY == [slug |-> <<"a", "/", "1", "-", "y">>,
             data |-> [pubDate |-> 200, category |-> "A", draft |-> FALSE]]
ExampleZ == [slug |-> <<"b", "/", "z">>,
             data |-> [pubDate |-> 50, category |-> "B", draft |-> TRUE]]

\* The place of entry e in array arr (slugs are unique).
Pos(arr, e) == CHOOSE i \in 1..Len(arr) : arr[i] = e

\* How often e occurs in arr.
Count(arr, e) == Cardinality({i \in 1..Len(arr) : arr[i] = e})

HasDraft(e) == "draft" \in DOMAIN e.data /\ e.data.draft = TRUE

\* The sequence number of a slug, stated on the string itself: the last
\* segment starts after the last separator; its leading digits are read in
\* base 10; without a leading digit the slug has no sequence number.
LastSegmentStart(s) ==
    CHOOSE i \in 1..(Len(s) + 1) :
        /\ i = 1 \/ s[i - 1] = "/"
        /\ \A j \in i..Len(s) : s[j] # "/"

LeadingDigitCount(s) ==
    LET start == LastSegmentStart(s)
    IN  CHOOSE k \in 0..(Len(s) - start + 1) :
            /\ \A j \in 0..(k - 1) : s[start + j] \in Digits
            /\ start + k > Len(s) \/ s[start + k] \notin Digits

RECURSIVE Pow10(_)
Pow10(n) == IF n = 0 THEN 1 ELSE 10 * Pow10(n - 1)

RECURSIVE PlaceValueSum(_, _, _)
PlaceValueSum(s, start, k) ==
    IF k = 0 THEN 0
    ELSE DigitValue(s[start]) * Pow10(k - 1) + PlaceValueSum(s, start + 1, k - 1)

HasSequence(s) == LeadingDigitCount(s) > 0

SequenceOf(s) == PlaceValueSum(s, LastSegmentStart(s), LeadingDigitCount(s))

\* sequence(x) <= sequence(y), a missing sequence number counting as +infinity.
SequenceLeq(x, y) ==
    \/ ~HasSequence(y.slug)
    \/ HasSequence(x.slug) /\ SequenceOf(x.slug) <= SequenceOf(y.slug)

SequenceEq(x, y) == SequenceLeq(x, y) /\ SequenceLeq(y, x)

\* The category of an entry when only an absent category is replaced by the
\* fallback, and when an absent or an empty one is.
CategoryIfAbsent(e) ==
    IF "category" \in DOMAIN e.data THEN e.data.category ELSE Fallback

CategoryIfAbsentOrEmpty(e) ==
    IF "category" \in DOMAIN e.data /\ e.data.category # ""
    THEN e.data.category ELSE Fallback

\* X may precede Y: by category, then sequence number, then date descending.
MayPrecede(cx, cy, x, y) ==
    /\ CollationKey(cx) <= CollationKey(cy)
    /\ CollationKey(cx) = CollationKey(cy) =>
         /\ SequenceLeq(x, y)
         /\ SequenceEq(x, y) => x.data.pubDate >= y.data.pubDate

ExampleHolds ==
    input = <<ExampleX, ExampleY, ExampleZ>> => posts = <<ExampleY, ExampleX, ExampleZ>>

\* C1 as stated: after getSortedPostsByCategory every element precedes only
\* elements it may precede by (category, sequence number, date descending),
\* an absent category counting as the fallback; and the documented example
\* sorts to a/1-y, a/2-x, b/z.
C1_AsStated ==
    op = "getSortedPostsByCategory" =>
        /\ \A i, j \in 1..Len(posts) :
             i < j => MayPrecede(CategoryIfAbsent(posts[i]), CategoryIfAbsent(posts[j]),
                                 posts[i], posts[j])
        /\ ExampleHolds

\* C1 amended: the same, an absent or empty category counting as the fallback.
C1_SortedByCategoryThenSequence ==
    op = "getSortedPostsByCategory" =>
        /\ \A i, j \in 1..Len(posts) :
             i < j => MayPrecede(CategoryIfAbsentOrEmpty(posts[i]),
                                 CategoryIfAbsentOrEmpty(posts[j]),
                                 posts[i], posts[j])
        /\ ExampleHolds

C1_Witness ==
    /\ op = "getSortedPostsByCategory"
    /\ input = <<ExampleX, ExampleY, ExampleZ>>
    /\ posts = <<ExampleY, ExampleX, ExampleZ>>

\* C2: in production mode getFilteredPosts yields exactly the entries of the
\* collection whose draft flag is not true.
C2_ProductionExcludesDrafts ==
    (op = "getFilteredPosts" /\ retrieval = "fulfilled" /\ PROD) =>
        /\ \A e \in Range(source) : e \in Range(returned.value) <=> ~HasDraft(e)
        /\ Range(returned.value) \subseteq Range(source)

C2_Witness ==
    /\ op = "getFilteredPosts" /\ retrieval = "fulfilled" /\ PROD
    /\ \E e \in Range(source) : HasDraft(e)
    /\ \E e \in Range(source) : "draft" \in DOMAIN e.data /\ ~e.data.draft
    /\ \E e \in Range(source) : "draft" \notin DOMAIN e.data
    /\ Len(returned.value) = 2

\* C3: outside production mode getFilteredPosts yields the collection as it
\* is, drafts included, in its order; an empty collection yields an empty
\* result in either mode.
C3_DevelopmentKeepsAll ==
    (op = "getFilteredPosts" /\ retrieval = "fulfilled") =>
        /\ ~PROD => returned.value = source
        /\ source = <<>> => returned.value = <<>>

C3_Witness ==
    /\ op = "getFilteredPosts" /\ retrieval = "fulfilled" /\ ~PROD
    /\ \E e \in Range(source) : HasDraft(e)
    /\ returned.value = source
    /\ Len(source) >= 2

\* C4: the result of getSortedPosts is non-increasing in pubDate.
C4_SortedByDateDescending ==
    op = "getSortedPosts" =>
        \A i \in 1..(Len(posts) - 1) : posts[i].data.pubDate >= posts[i + 1].data.pubDate

C4_Witness ==
    /\ op = "getSortedPosts"
    /\ Len(input) >= 3
    /\ input[1].data.pubDate < input[2].data.pubDate
    /\ input[2].data.pubDate < input[3].data.pubDate
    /\ posts = <<input[3], input[2], input[1]>>

\* C5: extractSequenceNumber yields the base-10 value of the leading digits
\* of the last segment of the slug, and Infinity, which exceeds every
\* sequence number, when that segment has no leading digit.
C5_ExtractSequenceNumber ==
    op = "extractSequenceNumber" =>
        /\ seq[1] = IF HasSequence(slug) THEN Num(SequenceOf(slug)) ELSE Infinity
        /\ ~HasSequence(slug) =>
             \A s \in ExampleSlugs :
                 HasSequence(s) => Sign(Minus(seq[1], extractSequenceNumber(s))) = 1
        /\ slug = <<"l", "a", "n", "g", "c", "h", "a", "i", "n", "/", "1", "-",
                    "b", "a", "s", "i", "c", "s">> => seq[1] = Num(1)
        /\ slug = <<"l", "a", "n", "g", "c", "h", "a", "i", "n", "/",
                    "b", "a", "s", "i", "c", "s">> => seq[1] = Infinity
        /\ slug = <<"1", "0">> => seq[1] = Num(10)
        /\ slug = <<"1", "/", "a">> => seq[1] = Infinity
        /\ slug = <<"a", "1">> => seq[1] = Infinity

C5_Witness ==
    /\ op = "extractSequenceNumber"
    /\ slug = <<"l", "a", "n", "g", "c", "h", "a", "i", "n", "/", "1", "-",
                "b", "a", "s", "i", "c", "s">>
    /\ seq = <<Num(1)>>

CategoriesAscendingWithoutDuplicates ==
    /\ \A i, j \in 1..Len(categories) : i # j => categories[i] # categories[j]
    /\ \A i \in 1..(Len(categories) - 1) :
         CollationKey(categories[i]) <= CollationKey(categories[i + 1])

\* C6 as stated: getUniqueCategories yields, without duplicates and ascending
\* in the category comparison, exactly the categories of its input, the
\* fallback standing for an absent category.
C6_AsStated ==
    op = "getUniqueCategories" =>
        /\ CategoriesAscendingWithoutDuplicates
        /\ Range(categories) = {CategoryIfAbsent(e) : e \in Range(input)}

\* C6 amended: the same, the fallback standing for an absent or empty category.
C6_UniqueCategoriesSorted ==
    op = "getUniqueCategories" =>
        /\ CategoriesAscendingWithoutDuplicates
        /\ Range(categories) = {CategoryIfAbsentOrEmpty(e) : e \in Range(input)}

C6_Witness ==
    /\ op = "getUniqueCategories"
    /\ Len(input) = 3
    /\ \E e \in Range(input) : "category" \notin DOMAIN e.data
    /\ \E e \in Range(input) : "category" \in DOMAIN e.data /\ e.data.category = ""
    /\ categories = <<Fallback, "A">>

\* C7: a sort returns the records it was given, each as often as it was
\* given and none changed; only their order may differ.
C7_SortsPermute ==
    op \in {"getSortedPosts", "getSortedPostsByCategory"} =>
        /\ Len(posts) = Len(input)
        /\ \A e \in Range(input) \cup Range(posts) : Count(posts, e) = Count(input, e)

C7_Witness ==
    /\ op = "getSortedPostsByCategory"
    /\ Len(input) = 3
    /\ posts = <<input[3], input[1], input[2]>>
    /\ \E e \in Range(input) : "category" \notin DOMAIN e.data

\* C8: getFilteredPosts, which hands the draft predicate to the content
\* source, settles as retrieving the whole collection and filtering it
\* afterwards would; a failed retrieval rejects with the source's error and
\* leaves the caller without a result.
C8_FilterAtSourceEquivalent ==
    op = "getFilteredPosts" =>
        /\ failure = <<>> =>
             LET whole == getCollection(source, [e \in Range(source) |-> TRUE], <<>>)
             IN  returned = [status |-> "fulfilled",
                             value |-> SelectSeq(whole.value,
                                                 LAMBDA e : ~PROD \/ ~HasDraft(e))]
        /\ failure # <<>> =>
             /\ returned = [status |-> "rejected", reason |-> failure[1]]
             /\ retrieval = "rejected"
             /\ posts = <<>>

C8_Witness ==
    /\ op = "getFilteredPosts"
    /\ failure = <<>>
    /\ PROD
    /\ Len(source) = 3
    /\ HasDraft(source[2])
    /\ returned.value = <<source[1], source[3]>>

DateTie(x, y) == x.data.pubDate = y.data.pubDate

CategoryTie(x, y) ==
    /\ CollationKey(CategoryIfAbsent(x)) = CollationKey(CategoryIfAbsent(y))
    /\ SequenceEq(x, y)
    /\ x.data.pubDate = y.data.pubDate

\* C9: records that tie (on pubDate for getSortedPosts; on category, sequence
\* number and pubDate for getSortedPostsByCategory) keep their input order.
C9_TiesKeepInputOrder ==
    /\ op = "getSortedPosts" =>
         \A i, j \in 1..Len(input) :
             (i < j /\ DateTie(input[i], input[j])) =>
                 Pos(posts, input[i]) < Pos(posts, input[j])
    /\ op = "getSortedPostsByCategory" =>
         \A i, j \in 1..Len(input) :
             (i < j /\ CategoryTie(input[i], input[j])) =>
                 Pos(posts, input[i]) < Pos(posts, input[j])

C9_Witness ==
    /\ op = "getSortedPosts"
    /\ Len(input) = 3
    /\ DateTie(input[1], input[2])
    /\ posts = <<input[3], input[1], input[2]>>

\* C10: the comparator of getSortedPostsByCategory always has a sign, is
\* antisymmetric, is zero on equal arguments, and is transitive.
C10_ComparatorConsistent ==
    op = "getSortedPostsByCategory" =>
        LET n == Len(input)
            \* every comparison of two records of the input, made once
            signs == {<<i, j, Sign(compareByCategory(input[i], input[j]))>> :
                         i \in 1..n, j \in 1..n}
            sign(i, j) == (CHOOSE t \in signs : t[1] = i /\ t[2] = j)[3]
        IN  \A i, j \in 1..n :
                /\ sign(i, j) \in {-1, 0, 1}
                /\ sign(i, j) = -sign(j, i)
                /\ sign(i, i) = 0
                /\ \A k \in 1..n :
                     (sign(i, j) <= 0 /\ sign(j, k) <= 0) => sign(i, k) <= 0

C10_Witness ==
    /\ op = "getSortedPostsByCategory"
    /\ Len(input) = 3
    /\ \E a, b \in Range(input) :
         /\ a # b
         /\ CollationKey(categoryOf(a.data)) = CollationKey(categoryOf(b.data))
         /\ extractSequenceNumber(a.slug) = Infinity
         /\ extractSequenceNumber(b.slug) = Infinity
         /\ a.data.pubDate # b.data.pubDate

====
